---- MODULE Spec2Model ----
(***************************************************************************)
(* One run of multiSourceWorkflow: multi-source-search, fetch-page-content,*)
(* create-development-tasks and the GitHub create-issue step.  Two         *)
(* implementations of the workflow are in the repository and both are      *)
(* modelled: the one whose steps call the HTTP APIs themselves ("direct")  *)
(* and the one whose steps call the tools ("tool").                        *)
(*                                                                         *)
(* UrgentSpec is one call of backlogSearchUrgentIssuesTool; NotifySpec is  *)
(* one request to POST /backlog-notify with the run of                    *)
(* backlogToSlackWorkflow it starts; NormalizeSpec is the normalization of *)
(* the blocks of one Notion page.                                          *)
(*                                                                         *)
(* Text values (titles, bodies, contents, error messages) are sequences of *)
(* tokens; the empty sequence is the empty string.  An optional value is a *)
(* record [some, val].                                                     *)
(***************************************************************************)
EXTENDS Integers, Sequences, FiniteSets, TLC

VARIABLES
    variant,     \* which implementation of the workflow runs
    initData,    \* query, owner and repo of the invocation (getInitData())
    searchIn,    \* inputData.sources of the running multi-source-search step
    pc,          \* position of the run
    allResults,  \* the accumulator of multi-source-search
    srcLog,      \* per source: what the running search step did and received
    searchOut,   \* output of multi-source-search (input of fetch-page-content)
    fetchReqs,   \* documents requested by fetch-page-content
    fetchOut,    \* output of fetch-page-content (input of create-development-tasks)
    genCalls,    \* generation calls made by create-development-tasks
    genOut,      \* what the generation call of create-development-tasks ended in
    publishReq,  \* output of create-development-tasks (input of create-issue)
    created,     \* number of issues the create-issue step created
    failedAt,    \* the step that threw, "" while none has
    \* backlogSearchUrgentIssuesTool
    env,         \* the BACKLOG_SPACE_ID / BACKLOG_API_KEY settings, by slot
    context,     \* the tool's input after its schema's defaults
    toolPc,      \* position of the tool's execute
    spaces,      \* const spaces = getBacklogSpaces()
    spaceIdx,    \* the space the outer loop is at
    allIssues,   \* the accumulator of the tool
    apiLog,      \* per space visited: what was requested and answered
    toolOut,     \* what the tool returned
    \* POST /backlog-notify and backlogToSlackWorkflow
    request,     \* the date of the request and its body
    slackEnv,    \* SLACK_BOT_TOKEN and SLACK_CHANNEL_ID
    notifyPc,    \* position of the handler and of the run it starts
    slackIn,     \* output of prepare-slack-notification
    slackOut,    \* what slackNotifyUrgentIssuesTool returned
    slackCalls,  \* invocations of slackNotifyUrgentIssuesTool in the run
    posts,       \* chat.postMessage requests sent, each with the answer to it
    response,    \* the handler's response
    \* the normalization of a Notion page
    blocks,      \* blocks.results of the page's children request
    content      \* the text built from them, once built

pipelineVars ==
    <<variant, initData, searchIn, pc, allResults, srcLog, searchOut, fetchReqs,
      fetchOut, genCalls, genOut, publishReq, created, failedAt>>

toolVars == <<env, context, toolPc, spaces, spaceIdx, allIssues, apiLog, toolOut>>

notifyVars ==
    <<request, slackEnv, notifyPc, slackIn, slackOut, slackCalls, posts, response>>

normalizerVars == <<blocks, content>>

vars == <<pipelineVars, toolVars, notifyVars, normalizerVars>>

----------------------------------------------------------------------------
(* Bounds *)

MaxResults == 2   \* longest result list a source's search answers with
MaxItems == 2     \* most items in the model's generated output

----------------------------------------------------------------------------
(* Optional values and JavaScript truthiness *)

None == [some |-> FALSE, val |-> <<>>]
Some(v) == [some |-> TRUE, val |-> v]

\* !x is false exactly for a present, non-empty string
Truthy(o) == o.some /\ o.val # <<>>

\* a || b on optional strings
OrElse(a, b) == IF Truthy(a) THEN a ELSE b

\* Sequences over S of length at most n
RECURSIVE SeqsUpTo(_, _)
SeqsUpTo(S, n) ==
    IF n = 0 THEN {<<>>}
    ELSE LET shorter == SeqsUpTo(S, n - 1)
         IN  shorter \cup
             {Append(q, x) : q \in {r \in shorter : Len(r) = n - 1}, x \in S}

\* No element occurs twice in q
NoRepeat(q) == \A i, j \in 1..Len(q) : q[i] = q[j] => i = j

RECURSIVE Flatten(_)
Flatten(qq) == IF qq = <<>> THEN <<>> ELSE Head(qq) \o Flatten(Tail(qq))

----------------------------------------------------------------------------
(* Invocation input *)

SourceNames == {"confluence", "notion", "backlog"}

DefaultSources == <<"confluence", "notion", "backlog">>

\* Arrays the caller may pass as `sources`
SourceArrays == {q \in SeqsUpTo(SourceNames, 3) : NoRepeat(q)}

InitInputs == [query : {"auth"}, owner : {"", "acme"}, repo : {"", "app"}]

SourcesInputs == {None} \cup {Some(q) : q \in SourceArrays}

\* const sources = inputData.sources || [...]: an array, even empty, is truthy
Sources(given) == IF given.some THEN given.val ELSE DefaultSources

Includes(q, x) == \E i \in 1..Len(q) : q[i] = x

----------------------------------------------------------------------------
(* multi-source-search, direct implementation *)

\* What the step did for one source and what the source answered
PendingLog ==
    [status |-> "pending", creds |-> FALSE, llmCalls |-> 0, httpCalls |-> 0,
     raw |-> <<>>, generated |-> None, cql |-> None]

SkippedLog == [PendingLog EXCEPT !.status = "skipped"]

InitLog == [s \in SourceNames |-> PendingLog]

ConfluenceIds == {"c1", "c2"}

\* Entries of data.results: hits on content, and a hit on another kind of
\* entity (a space, a user), which carries no `content`
ConfluenceEntries ==
    [id : ConfluenceIds, hasContent : {TRUE}] \cup
    {[id |-> "cx", hasContent |-> FALSE]}

ConfluenceResponses ==
    {q \in SeqsUpTo(ConfluenceEntries, MaxResults) : NoRepeat(q)}

HasContent(e) == e.hasContent

ConfluenceResult(e) ==
    [source |-> "confluence", pageId |-> e.id, title |-> <<"title-" \o e.id>>,
     url |-> "wiki/" \o e.id]

\* Mutant: the check of result.content is dropped
ConfluenceHitsUnfiltered(data) == [i \in 1..Len(data) |-> ConfluenceResult(data[i])]

\* data.results?.forEach(result => { if (result.content) allResults.push(...) })
ConfluenceHits(data) ==
    LET kept == SelectSeq(data, HasContent)
    IN  [i \in 1..Len(kept) |-> ConfluenceResult(kept[i])]

\* cqlResult.text: a CQL clause with white space around it, or text that is
\* no CQL; a text is the sequence of its pieces
GeneratedTexts == {<<" ", "text ~ \"auth\"", "\n">>, <<"Sorry, no CQL">>}

IsSpace(piece) == piece \in {" ", "\n"}

RECURSIVE TrimStart(_)
TrimStart(text) ==
    IF text # <<>> /\ IsSpace(Head(text)) THEN TrimStart(Tail(text)) ELSE text

RECURSIVE TrimEnd(_)
TrimEnd(text) ==
    IF text # <<>> /\ IsSpace(text[Len(text)])
    THEN TrimEnd(SubSeq(text, 1, Len(text) - 1))
    ELSE text

\* cqlResult.text.trim()
Trim(text) == TrimEnd(TrimStart(text))

\* Outcomes of the Confluence block: missing settings, the CQL generation
\* throwing, the request throwing, a non-success status, a success
ConfluenceOutcomes ==
    {[creds |-> FALSE, llm |-> "none", text |-> None, http |-> "none", data |-> <<>>],
     [creds |-> TRUE, llm |-> "throw", text |-> None, http |-> "none", data |-> <<>>]} \cup
    {[creds |-> TRUE, llm |-> "ok", text |-> Some(t), http |-> h, data |-> <<>>] :
        t \in GeneratedTexts, h \in {"throw", "notok"}} \cup
    {[creds |-> TRUE, llm |-> "ok", text |-> Some(t), http |-> "ok", data |-> d] :
        t \in GeneratedTexts, d \in ConfluenceResponses}

\* Mutant: the request carries the caller's query, not its translation
RequestCqlUntranslated(out) ==
    IF out.http = "none" THEN None ELSE Some(<<"auth">>)

\* params.append("cql", cql) and context: { cql }: the cql of the search
\* request, none when no request is made
RequestCql(out) ==
    IF out.http = "none" THEN None ELSE Some(Trim(out.text.val))

ConfluenceContribution(out) ==
    IF out.http = "ok" THEN ConfluenceHits(out.data) ELSE <<>>

ConfluenceLog(out) ==
    [status |-> IF out.http = "ok" THEN "ok" ELSE "failed",
     creds |-> out.creds,
     llmCalls |-> IF out.llm = "none" THEN 0 ELSE 1,
     httpCalls |-> IF out.http = "none" THEN 0 ELSE 1,
     raw |-> out.data,
     generated |-> out.text,
     cql |-> RequestCql(out)]

SearchConfluence ==
    /\ pc = "search_confluence"
    /\ variant = "direct"
    /\ IF Includes(Sources(searchIn), "confluence")
       THEN \E out \in ConfluenceOutcomes :
               /\ allResults' = allResults \o ConfluenceContribution(out)
               /\ srcLog' = [srcLog EXCEPT !["confluence"] = ConfluenceLog(out)]
       ELSE /\ allResults' = allResults
            /\ srcLog' = [srcLog EXCEPT !["confluence"] = SkippedLog]
    /\ pc' = "search_notion"
    /\ UNCHANGED <<variant, initData, searchIn, searchOut, fetchReqs,
                   fetchOut, genCalls, genOut, publishReq, created, failedAt>>
    /\ UNCHANGED <<toolVars, notifyVars>>
    /\ UNCHANGED normalizerVars

NotionIds == {"n1", "n2"}

NotionResponses == {q \in SeqsUpTo(NotionIds, MaxResults) : NoRepeat(q)}

NotionResult(id) ==
    [source |-> "notion", pageId |-> id, title |-> <<"title-" \o id>>,
     url |-> "notion.so/" \o id]

\* Mutant: every page is put in front of the pages before it
NotionHitsReversed(data) ==
    [i \in 1..Len(data) |-> NotionResult(data[Len(data) + 1 - i])]

\* data.results?.forEach(page => allResults.push(...)): every page is kept
NotionHits(data) == [i \in 1..Len(data) |-> NotionResult(data[i])]

NotionOutcomes ==
    {[creds |-> FALSE, http |-> "none", data |-> <<>>],
     [creds |-> TRUE, http |-> "throw", data |-> <<>>],
     [creds |-> TRUE, http |-> "notok", data |-> <<>>]} \cup
    {[creds |-> TRUE, http |-> "ok", data |-> d] : d \in NotionResponses}

NotionContribution(out) ==
    IF out.http = "ok" THEN NotionHits(out.data) ELSE <<>>

\* Mutant: the request is sent whether or not the token is set
NotionLogNoTokenCheck(out) ==
    [status |-> IF out.http = "ok" THEN "ok" ELSE "failed",
     creds |-> out.creds,
     llmCalls |-> 0,
     httpCalls |-> 1,
     raw |-> out.data, generated |-> None, cql |-> None]

NotionLog(out) ==
    [status |-> IF out.http = "ok" THEN "ok" ELSE "failed",
     creds |-> out.creds,
     llmCalls |-> 0,
     httpCalls |-> IF out.http = "none" THEN 0 ELSE 1,
     raw |-> out.data, generated |-> None, cql |-> None]

SearchNotion ==
    /\ pc = "search_notion"
    /\ variant = "direct"
    /\ IF Includes(Sources(searchIn), "notion")
       THEN \E out \in NotionOutcomes :
               /\ allResults' = allResults \o NotionContribution(out)
               /\ srcLog' = [srcLog EXCEPT !["notion"] = NotionLog(out)]
       ELSE /\ allResults' = allResults
            /\ srcLog' = [srcLog EXCEPT !["notion"] = SkippedLog]
    /\ pc' = "search_backlog"
    /\ UNCHANGED <<variant, initData, searchIn, searchOut, fetchReqs,
                   fetchOut, genCalls, genOut, publishReq, created, failedAt>>
    /\ UNCHANGED <<toolVars, notifyVars>>
    /\ UNCHANGED normalizerVars

ProjectList == <<"p1", "p2">>

\* The projects a successful /projects answer lists
ProjectResponses == {SubSeq(ProjectList, 1, n) : n \in 0..Len(ProjectList)}

HourMs == 60 * 60 * 1000

MsPerDay == 1000 * 60 * 60 * 24

\* due.getTime() - now.getTime() of an issue with a due date, in milliseconds
DueOffsets == {-30 * HourMs, -5 * HourMs, 14 * MsPerDay, 14 * MsPerDay + HourMs}

DueChoices ==
    {[has |-> FALSE, ms |-> 0]} \cup {[has |-> TRUE, ms |-> m] : m \in DueOffsets}

IssueIdOf(p) == IF p = "p1" THEN "b1" ELSE "b2"

\* Issue lists a successful /issues answer for project p may hold
IssueLists(p) ==
    {<<>>} \cup {<<[id |-> IssueIdOf(p), project |-> p, due |-> d]>> : d \in DueChoices}

IssueResponses(p) ==
    {[http |-> "throw", issues |-> <<>>], [http |-> "notok", issues |-> <<>>]} \cup
    {[http |-> "ok", issues |-> q] : q \in IssueLists(p)}

\* Math.ceil(x / y) for y > 0
CeilDiv(x, y) == -((-x) \div y)

\* Math.ceil((due.getTime() - now.getTime()) / (1000 * 60 * 60 * 24))
DiffDays(ms) == CeilDiv(ms, MsPerDay)

daysThreshold == 14

\* if (issue.dueDate) { ... if (diffDays <= daysThreshold && diffDays >= 0)
BacklogQualifies(issue) ==
    /\ issue.due.has
    /\ DiffDays(issue.due.ms) <= daysThreshold
    /\ DiffDays(issue.due.ms) >= 0

BacklogResult(issue) ==
    [source |-> "backlog", pageId |-> issue.id,
     title |-> <<"due-in-" \o ToString(DiffDays(issue.due.ms)),
                 "summary-" \o issue.id, issue.project>>,
     url |-> "backlog.jp/view/" \o issue.id]

BacklogHits(issues) ==
    LET kept == SelectSeq(issues, BacklogQualifies)
    IN  [i \in 1..Len(kept) |-> BacklogResult(kept[i])]

\* Outcomes of the Backlog block: missing settings, /projects throwing or
\* answering a non-success status, or a project list with one /issues
\* outcome per project
BacklogOutcomes ==
    {[creds |-> FALSE, http |-> "none", projects |-> <<>>, issues |-> <<>>],
     [creds |-> TRUE, http |-> "throw", projects |-> <<>>, issues |-> <<>>],
     [creds |-> TRUE, http |-> "notok", projects |-> <<>>, issues |-> <<>>]} \cup
    UNION {{[creds |-> TRUE, http |-> "ok", projects |-> ps, issues |-> rs] :
              rs \in {r \in [1..Len(ps) ->
                                 UNION {IssueResponses(ps[i]) : i \in 1..Len(ps)}] :
                        \A i \in 1..Len(ps) : r[i] \in IssueResponses(ps[i])}} :
           ps \in ProjectResponses}

IssuesOf(r) == r.issues

\* Every issue the /issues requests answered with, in request order
BacklogRaw(out) == Flatten([i \in 1..Len(out.issues) |-> IssuesOf(out.issues[i])])

\* for (const project of projects) { try { ... } catch { } }: a project whose
\* request fails contributes nothing and the loop goes on
BacklogContribution(out) ==
    IF out.http = "ok" THEN BacklogHits(BacklogRaw(out)) ELSE <<>>

BacklogLog(out) ==
    [status |-> IF out.http # "ok" THEN "failed"
                ELSE IF \E i \in 1..Len(out.issues) : out.issues[i].http # "ok"
                     THEN "partial" ELSE "ok",
     creds |-> out.creds,
     llmCalls |-> 0,
     httpCalls |-> IF out.http = "none" THEN 0 ELSE 1 + Len(out.issues),
     raw |-> BacklogRaw(out), generated |-> None, cql |-> None]

\* Mutant: the empty list is returned without an error
SearchOutputNoError(results, sources) == [results |-> results, error |-> None]

\* if (allResults.length === 0) return { results: [], error } else { results }
SearchOutput(results, sources) ==
    IF Len(results) = 0
    THEN [results |-> <<>>, error |-> Some(<<"no-results-in">> \o sources)]
    ELSE [results |-> results, error |-> None]

NoSearchOut == [results |-> <<>>, error |-> None]

\* The step returns: its accumulator goes out of scope
SearchReturn(results, log, sources) ==
    /\ srcLog' = [srcLog EXCEPT !["backlog"] = log]
    /\ searchOut' = SearchOutput(results, sources)
    /\ allResults' = <<>>
    /\ pc' = "fetch"
    /\ UNCHANGED <<variant, initData, searchIn, fetchReqs, fetchOut, genCalls,
                   genOut, publishReq, created, failedAt>>
    /\ UNCHANGED <<toolVars, notifyVars>>
    /\ UNCHANGED normalizerVars

\* The Backlog block and the return of the step
SearchBacklog ==
    /\ pc = "search_backlog"
    /\ variant = "direct"
    /\ IF Includes(Sources(searchIn), "backlog")
       THEN \E out \in BacklogOutcomes :
               SearchReturn(allResults \o BacklogContribution(out),
                            BacklogLog(out), Sources(searchIn))
       ELSE SearchReturn(allResults, SkippedLog, Sources(searchIn))

----------------------------------------------------------------------------
(* multi-source-search, tool implementation *)

\* confluenceSearchPagesTool.execute: the pages found, or no page and an error
ConfluenceSearchPagesTool(resp) ==
    IF resp.http = "ok"
    THEN [pages |-> [i \in 1..Len(resp.data) |-> ConfluenceResult(resp.data[i])], error |-> None]
    ELSE [pages |-> <<>>, error |-> Some(<<"Confluence API error">>)]

ToolConfluenceOutcomes ==
    {[llm |-> "throw", text |-> None, http |-> "none", data |-> <<>>]} \cup
    {[llm |-> "ok", text |-> Some(t), http |-> h, data |-> <<>>] :
        t \in GeneratedTexts, h \in {"throw", "notok"}} \cup
    {[llm |-> "ok", text |-> Some(t), http |-> "ok", data |-> d] :
        t \in GeneratedTexts,
        d \in {q \in ConfluenceResponses : \A i \in 1..Len(q) : q[i].hasContent}}

\* if (result.pages && result.pages.length > 0) result.pages.forEach(push)
ToolContribution(result) == IF Len(result.pages) > 0 THEN result.pages ELSE <<>>

ToolSearchConfluence ==
    /\ pc = "search_confluence"
    /\ variant = "tool"
    /\ IF Includes(Sources(searchIn), "confluence")
       THEN \E out \in ToolConfluenceOutcomes :
               /\ allResults' =
                     IF out.llm = "throw" THEN allResults
                     ELSE allResults \o ToolContribution(ConfluenceSearchPagesTool(out))
               /\ srcLog' = [srcLog EXCEPT !["confluence"] =
                     [status |-> IF out.http = "ok" THEN "ok" ELSE "failed",
                      creds |-> TRUE,
                      llmCalls |-> 1,
                      httpCalls |-> IF out.http = "none" THEN 0 ELSE 1,
                      raw |-> out.data,
                      generated |-> out.text,
                      cql |-> RequestCql(out)]]
       ELSE /\ allResults' = allResults
            /\ srcLog' = [srcLog EXCEPT !["confluence"] = SkippedLog]
    /\ pc' = "search_notion"
    /\ UNCHANGED <<variant, initData, searchIn, searchOut, fetchReqs,
                   fetchOut, genCalls, genOut, publishReq, created, failedAt>>
    /\ UNCHANGED <<toolVars, notifyVars>>
    /\ UNCHANGED normalizerVars

\* callNotionAPI throws on a failed request or a non-success status; the tool
\* catches it: return { pages: [], total: 0, error: String(error) }
NotionSearchPagesTool(resp) ==
    IF resp.http = "ok"
    THEN [pages |-> [i \in 1..Len(resp.data) |-> NotionResult(resp.data[i])], error |-> None]
    ELSE [pages |-> <<>>, error |-> Some(<<"Notion API error">>)]

\* The tool sends the request whether or not the token is set; without a
\* token the API answers with a non-success status
ToolNotionOutcomes ==
    {[creds |-> FALSE, http |-> "notok", data |-> <<>>],
     [creds |-> TRUE, http |-> "throw", data |-> <<>>],
     [creds |-> TRUE, http |-> "notok", data |-> <<>>]} \cup
    {[creds |-> TRUE, http |-> "ok", data |-> d] : d \in NotionResponses}

ToolSearchNotion ==
    /\ pc = "search_notion"
    /\ variant = "tool"
    /\ IF Includes(Sources(searchIn), "notion")
       THEN \E out \in ToolNotionOutcomes :
               /\ allResults' = allResults \o ToolContribution(NotionSearchPagesTool(out))
               /\ srcLog' = [srcLog EXCEPT !["notion"] = NotionLog(out)]
       ELSE /\ allResults' = allResults
            /\ srcLog' = [srcLog EXCEPT !["notion"] = SkippedLog]
    /\ pc' = "search_backlog"
    /\ UNCHANGED <<variant, initData, searchIn, searchOut, fetchReqs,
                   fetchOut, genCalls, genOut, publishReq, created, failedAt>>
    /\ UNCHANGED <<toolVars, notifyVars>>
    /\ UNCHANGED normalizerVars

\* Wikis of the first project: two whose name or content contains the query
\* and one that contains it nowhere
WikiEntries ==
    [id : {"w1", "w2"}, matches : {TRUE}] \cup {[id |-> "wx", matches |-> FALSE]}

WikiResponses == {q \in SeqsUpTo(WikiEntries, MaxResults) : NoRepeat(q)}

WikiMatches(w) == w.matches

WikiResult(w) ==
    [source |-> "backlog", pageId |-> w.id, title |-> <<"title-" \o w.id>>,
     url |-> "backlog.jp/wiki/" \o w.id]

\* projects: "throw" (request failed), "empty", or "ok"; wikis likewise
BacklogSearchWikiTool(resp) ==
    IF resp.projects = "throw" \/ (resp.projects = "ok" /\ resp.wikis = "throw")
    THEN [pages |-> <<>>, error |-> Some(<<"Backlog API error">>)]
    ELSE IF resp.projects = "empty"
    THEN [pages |-> <<>>, error |-> Some(<<"no-project">>)]
    ELSE LET kept == SelectSeq(resp.data, WikiMatches)
         IN  [pages |-> [i \in 1..Len(kept) |-> WikiResult(kept[i])], error |-> None]

ToolBacklogOutcomes ==
    {[projects |-> "throw", wikis |-> "none", data |-> <<>>],
     [projects |-> "empty", wikis |-> "none", data |-> <<>>],
     [projects |-> "ok", wikis |-> "throw", data |-> <<>>]} \cup
    {[projects |-> "ok", wikis |-> "ok", data |-> d] : d \in WikiResponses}

ToolBacklogLog(out) ==
    [status |-> IF out.wikis = "ok" THEN "ok" ELSE "failed",
     creds |-> TRUE,
     llmCalls |-> 0,
     httpCalls |-> IF out.wikis = "none" THEN 1 ELSE 2,
     raw |-> out.data, generated |-> None, cql |-> None]

\* The Backlog block and the return of the step; the message names no source
ToolSearchBacklog ==
    /\ pc = "search_backlog"
    /\ variant = "tool"
    /\ IF Includes(Sources(searchIn), "backlog")
       THEN \E out \in ToolBacklogOutcomes :
               SearchReturn(allResults \o ToolContribution(BacklogSearchWikiTool(out)),
                            ToolBacklogLog(out), <<>>)
       ELSE SearchReturn(allResults, SkippedLog, <<>>)

----------------------------------------------------------------------------
(* fetch-page-content, direct implementation *)

BlankPage == [source |-> "", id |-> "", title |-> <<>>, url |-> "", content |-> None]

NoFetchOut == [page |-> BlankPage, error |-> None]

\* The document returned when the search found nothing
NoResultPage ==
    [source |-> "none", id |-> "", title |-> <<"no-result">>, url |-> "",
     content |-> None]

\* The document built from the search result alone
FallbackPage(first) ==
    [source |-> first.source, id |-> first.pageId, title |-> first.title,
     url |-> first.url, content |-> None]

\* if (inputData.error || !inputData.results || inputData.results.length === 0)
NothingToFetch(input) == Truthy(input.error) \/ Len(input.results) = 0

\* Mutant: the last result is selected
LastResult(results) == results[Len(results)]

\* const firstResult = inputData.results[0]
FirstResult(results) == results[1]

\* page.body?.storage?.value of a Confluence page: missing, empty or markup
ConfluenceBodies == {None, Some(<<>>), Some(<<"<p>markup</p>">>)}

BlockTypes == {"paragraph", "heading_1", "heading_2", "bulleted_list_item", "image"}

\* A block: its type, whether block[type].rich_text is present, and the
\* concatenation of its rich_text's plain_text
Block(type, text) == [type |-> type, rich_text |-> TRUE, text |-> text]

\* Block lists of a Notion page
NotionBlockLists ==
    {<<>>,
     <<Block("image", "x")>>,
     <<Block("paragraph", "")>>,
     <<Block("paragraph", "a")>>,
     <<Block("heading_2", ""), Block("paragraph", "b")>>,
     <<Block("heading_1", "a"), Block("image", "x"),
       Block("bulleted_list_item", "b")>>}

\* blocks.results.map(block => ...): the line of one block, "" for other
\* types and for a block without rich_text
BlockLine(block) ==
    CASE block.type = "paragraph" /\ block.rich_text -> block.text
      [] block.type = "heading_1" /\ block.rich_text -> "# " \o block.text
      [] block.type = "heading_2" /\ block.rich_text -> "## " \o block.text
      [] block.type = "bulleted_list_item" /\ block.rich_text -> "- " \o block.text
      [] OTHER -> ""

NonEmptyLine(line) == line # ""

\* Mutant: empty lines are not filtered out
NotionContentUnfiltered(results) ==
    [i \in 1..Len(results) |-> BlockLine(results[i])]

\* .map(...).filter(text => text): the lines kept, in order
NotionContent(results) ==
    SelectSeq([i \in 1..Len(results) |-> BlockLine(results[i])], NonEmptyLine)

RECURSIVE Join(_, _)
\* lines.join(sep)
Join(lines, sep) ==
    IF Len(lines) = 0 THEN ""
    ELSE IF Len(lines) = 1 THEN lines[1]
    ELSE lines[1] \o sep \o Join(Tail(lines), sep)

\* content: content || undefined
NonEmptyOrUndefined(text) == IF text # <<>> THEN Some(text) ELSE None

\* The markdown built from a Backlog issue: never empty
BacklogIssueContent(id) ==
    <<"# summary-" \o id, "project", "due", "priority", "status", "assignee",
      "## details", "description-" \o id>>

\* What the requests for the first result may end in
FetchOutcomes(first) ==
    CASE first.source = "confluence" ->
            {[http |-> "throw", body |-> None], [http |-> "notok", body |-> None]} \cup
            {[http |-> "ok", body |-> b] : b \in ConfluenceBodies}
      [] first.source = "notion" ->
            {[http |-> "throw", body |-> None], [http |-> "notok", body |-> None]} \cup
            {[http |-> "ok", body |-> NonEmptyOrUndefined(NotionContent(bl))] :
                bl \in NotionBlockLists}
      [] OTHER ->
            {[http |-> "throw", body |-> None], [http |-> "notok", body |-> None],
             [http |-> "ok", body |-> Some(BacklogIssueContent(first.pageId))]}

\* The page a successful answer is turned into.  The API answers a request
\* for an id with the document of that id.
FetchedPage(first, out) ==
    CASE first.source = "confluence" ->
            [source |-> first.source, id |-> first.pageId,
             title |-> <<"title-" \o first.pageId>>,
             url |-> "wiki/" \o first.pageId, content |-> out.body]
      [] first.source = "notion" ->
            [source |-> first.source, id |-> first.pageId, title |-> first.title,
             url |-> "notion.so/" \o first.pageId, content |-> out.body]
      [] OTHER ->
            [source |-> first.source, id |-> first.pageId, title |-> first.title,
             url |-> first.url, content |-> out.body]

FetchResult(first, out) ==
    IF out.http = "ok" THEN [page |-> FetchedPage(first, out), error |-> None]
    ELSE IF out.http = "notok"
         THEN [page |-> FallbackPage(first), error |-> Some(<<"fetch-failed">>)]
         ELSE [page |-> FallbackPage(first), error |-> Some(<<"Error: request failed">>)]

FetchPageContent ==
    /\ pc = "fetch"
    /\ variant = "direct"
    /\ IF NothingToFetch(searchOut)
       THEN /\ fetchOut' = [page |-> NoResultPage,
                            error |-> OrElse(searchOut.error, Some(<<"no-results">>))]
            /\ fetchReqs' = {}
       ELSE \E out \in FetchOutcomes(FirstResult(searchOut.results)) :
               /\ fetchOut' = FetchResult(FirstResult(searchOut.results), out)
               /\ fetchReqs' = {[source |-> FirstResult(searchOut.results).source,
                                 pageId |-> FirstResult(searchOut.results).pageId]}
    /\ srcLog' = InitLog
    /\ searchIn' = None
    /\ pc' = "synth"
    /\ UNCHANGED <<variant, initData, allResults, searchOut,
                   genCalls, genOut, publishReq, created, failedAt>>
    /\ UNCHANGED <<toolVars, notifyVars>>
    /\ UNCHANGED normalizerVars

----------------------------------------------------------------------------
(* fetch-page-content, tool implementation *)

\* a || b on strings and on texts
StrOr(a, b) == IF a # "" THEN a ELSE b
TextOr(a, b) == IF a # <<>> THEN a ELSE b

\* wiki.content of a Backlog wiki page
WikiContents == {<<>>, <<"wiki text">>}

ToolFetchOutcomes(first) ==
    CASE first.source = "backlog" ->
            {[http |-> "throw", body |-> None], [http |-> "notok", body |-> None]} \cup
            {[http |-> "ok", body |-> NonEmptyOrUndefined(c)] : c \in WikiContents}
      [] OTHER -> FetchOutcomes(first)

\* confluenceGetPageTool, notionGetPageTool, backlogGetWikiTool: the page, or
\* on any failure { error, page: { id: "", title: "", url: "", content: undefined } }
GetPageTool(first, out) ==
    IF out.http = "ok"
    THEN [page |-> [FetchedPage(first, out) EXCEPT
                       !.title = <<"title-" \o first.pageId>>],
          error |-> None]
    ELSE [page |-> BlankPage, error |-> Some(<<"API error">>)]

\* id: pageContent?.page?.id || firstResult.pageId, ...; the tool's error is
\* not copied to the step's output
ToolFetchResult(first, got) ==
    [page |-> [source |-> first.source,
               id |-> StrOr(got.page.id, first.pageId),
               title |-> TextOr(got.page.title, first.title),
               url |-> StrOr(got.page.url, first.url),
               content |-> got.page.content],
     error |-> None]

\* An empty search throws: the run fails in this step
ToolFetchPageContent ==
    /\ pc = "fetch"
    /\ variant = "tool"
    /\ IF NothingToFetch(searchOut)
       THEN /\ pc' = "failed"
            /\ failedAt' = "fetch-page-content"
            /\ UNCHANGED <<fetchOut, fetchReqs>>
       ELSE /\ \E out \in ToolFetchOutcomes(FirstResult(searchOut.results)) :
                  fetchOut' = ToolFetchResult(FirstResult(searchOut.results),
                                  GetPageTool(FirstResult(searchOut.results), out))
            /\ fetchReqs' = {[source |-> FirstResult(searchOut.results).source,
                              pageId |-> FirstResult(searchOut.results).pageId]}
            /\ pc' = "synth"
            /\ UNCHANGED failedAt
    /\ srcLog' = InitLog
    /\ searchIn' = None
    /\ UNCHANGED <<variant, initData, allResults, searchOut,
                   genCalls, genOut, publishReq, created>>
    /\ UNCHANGED <<toolVars, notifyVars>>
    /\ UNCHANGED normalizerVars

----------------------------------------------------------------------------
(* create-development-tasks *)
(* Both implementations of the workflow share this step's control flow;   *)
(* they differ only in the wording of the issue texts, which the tokens   *)
(* below abstract.                                                        *)

NoRequest == [owner |-> "", repo |-> "", issues |-> <<>>]

\* Mutant: only the error is looked at
IsDegradedErrorOnly(input) == Truthy(input.error)

\* if (error || !page || !page.content)
IsDegraded(input) == Truthy(input.error) \/ ~Truthy(input.page.content)

\* The single issue that reports the failed search or fetch
DegradedRequest(init, input) ==
    [owner |-> StrOr(init.owner, ""),
     repo |-> StrOr(init.repo, ""),
     issues |->
        <<[title |-> Some(<<"investigate:", init.query>>),
           body |-> Some(<<"## search result", init.query, "### error">> \o
                         OrElse(input.error, Some(<<"no content">>)).val \o
                         <<"source: Confluence", init.query>>)]>>]

\* Titles and bodies an item of the generated JSON may have; a body may
\* mention the page url, as the prompt asks
ItemTitles == {None, Some(<<"A">>)}

ItemBodies(page) == {None, Some(<<"text">>), Some(<<"text", page.url>>)}

Items(page) == [title : ItemTitles, body : ItemBodies(page)]

ItemLists(page) == SeqsUpTo(Items(page), MaxItems)

\* What generateVNext ends in: an exception, or a text that is not JSON, the
\* JSON null, a top-level array, an object without `issues`, an object with
\* an `issues` array
GenOutcomes(page) ==
    {[kind |-> k, items |-> <<>>] : k \in {"throw", "invalid", "null", "object"}} \cup
    {[kind |-> "array", items |-> q] :
        q \in {r \in ItemLists(page) :
                 \A i \in 1..Len(r) : r[i].title.some /\ r[i].body.some}} \cup
    {[kind |-> "issues", items |-> q] : q \in ItemLists(page)}

\* The footer appended to every body
Footer(page) == <<"---", "ref:">> \o page.title \o <<page.url, page.source>>

\* `${issue.body}...`: a missing body is interpolated as "undefined"
Interpolate(opt) == IF opt.some THEN opt.val ELSE <<"undefined">>

SynthIssue(item, page) ==
    [title |-> item.title, body |-> Some(Interpolate(item.body) \o Footer(page))]

\* JSON.parse(result.text) and parsedResult.issues.map(...): only an object
\* with an `issues` array gets through; everything else throws
ParsesToIssues(gen) == gen.kind = "issues"

\* Mutant: the fallback request names no repository
ErrorRequestNoRepository(init, gen) ==
    [owner |-> "",
     repo |-> "",
     issues |-> <<[title |-> Some(<<"error: issue creation failed">>),
                   body |-> Some(<<"error:", gen.kind>>)]>>]

\* catch (error) { return { owner: owner, repo: repo, issues: [...] } }
ErrorRequest(init, gen) ==
    [owner |-> init.owner,
     repo |-> init.repo,
     issues |-> <<[title |-> Some(<<"error: issue creation failed">>),
                   body |-> Some(<<"error:", gen.kind>>)]>>]

\* Mutant: no try/catch, whatever was generated is mapped
SynthRequestNoCatch(init, page, gen) ==
    [owner |-> StrOr(init.owner, ""),
     repo |-> StrOr(init.repo, ""),
     issues |-> [i \in 1..Len(gen.items) |-> SynthIssue(gen.items[i], page)]]

SynthRequest(init, page, gen) ==
    IF ParsesToIssues(gen)
    THEN [owner |-> StrOr(init.owner, ""),
          repo |-> StrOr(init.repo, ""),
          issues |-> [i \in 1..Len(gen.items) |-> SynthIssue(gen.items[i], page)]]
    ELSE ErrorRequest(init, gen)

NoGen == [kind |-> "none", items |-> <<>>]

CreateDevelopmentTasks ==
    /\ pc = "synth"
    /\ IF IsDegraded(fetchOut)
       THEN /\ publishReq' = DegradedRequest(initData, fetchOut)
            /\ genCalls' = 0
            /\ genOut' = NoGen
       ELSE \E gen \in GenOutcomes(fetchOut.page) :
               /\ publishReq' = SynthRequest(initData, fetchOut.page, gen)
               /\ genCalls' = 1
               /\ genOut' = gen
    /\ searchOut' = NoSearchOut
    /\ fetchReqs' = {}
    /\ pc' = "publish"
    /\ UNCHANGED <<variant, initData, searchIn, allResults, srcLog, fetchOut,
                   created, failedAt>>
    /\ UNCHANGED <<toolVars, notifyVars>>
    /\ UNCHANGED normalizerVars

----------------------------------------------------------------------------
(* create-issue: the terminal step *)

\* githubCreateIssueTool: creates the issues in order, or fails the run
GithubCreateIssue ==
    /\ pc = "publish"
    /\ \/ /\ pc' = "done"
          /\ created' = Len(publishReq.issues)
          /\ UNCHANGED failedAt
       \/ /\ pc' = "failed"
          /\ failedAt' = "github-create-issue"
          /\ UNCHANGED created
    /\ fetchOut' = NoFetchOut
    /\ genCalls' = 0
    /\ genOut' = NoGen
    /\ publishReq' = NoRequest
    /\ UNCHANGED <<variant, initData, searchIn, allResults, srcLog, searchOut,
                   fetchReqs>>
    /\ UNCHANGED <<toolVars, notifyVars>>
    /\ UNCHANGED normalizerVars

----------------------------------------------------------------------------
(* backlogSearchUrgentIssuesTool *)

MaxNumbered == 1   \* numbered settings BACKLOG_SPACE_ID_<i> read, of the code's ten

\* Slot 0 is BACKLOG_SPACE_ID / BACKLOG_API_KEY, slot i is BACKLOG_..._<i>
EnvSlots == 0..MaxNumbered

\* A slot: nothing set, the space id set without a key, or both set
SlotSettings ==
    {[spaceId |-> "", apiKey |-> ""], [spaceId |-> "alpha", apiKey |-> ""],
     [spaceId |-> "alpha", apiKey |-> "ka"], [spaceId |-> "beta", apiKey |-> "kb"]}

Envs == [EnvSlots -> SlotSettings]

NoEnv == [i \in EnvSlots |-> [spaceId |-> "", apiKey |-> ""]]

\* if (spaceId && apiKey)
Configured(slot) == slot.spaceId # "" /\ slot.apiKey # ""

RECURSIVE SpacesFrom(_, _)
SpacesFrom(e, i) ==
    IF i > MaxNumbered THEN <<>>
    ELSE (IF Configured(e[i]) THEN <<e[i]>> ELSE <<>>) \o SpacesFrom(e, i + 1)

\* getBacklogSpaces(): the configured slots, the default one first, then
\* the numbered ones in ascending order
GetBacklogSpaces(e) == SpacesFrom(e, 0)

DefaultDaysThreshold == -1

\* daysThreshold as the caller gives it: omitted, or a number
ThresholdInputs == {[given |-> FALSE, value |-> 0], [given |-> TRUE, value |-> 3]}

\* z.number().optional().default(-1)
WithDefault(input) ==
    [daysThreshold |-> IF input.given THEN input.value ELSE DefaultDaysThreshold]

NoDueDate == [has |-> FALSE, ms |-> 0]
DueAt(ms) == [has |-> TRUE, ms |-> ms]

\* The instant five hours before d whole days from now, as
\* due.getTime() - now.getTime()
DueMs(d) == d * MsPerDay - 5 * HourMs

\* The due dates of the issues an /issues answer may list, in its order:
\* issues due in 15, -1, 3, 0, -2 and 1 days and one without a due date; or
\* issues due in exactly one day, exactly two days ago, and a millisecond ago
IssueMenu ==
    {<<DueAt(DueMs(15)), DueAt(DueMs(-1)), NoDueDate, DueAt(DueMs(3)),
       DueAt(DueMs(0)), DueAt(DueMs(-2)), DueAt(DueMs(1))>>,
     <<DueAt(MsPerDay), DueAt(-2 * MsPerDay), DueAt(-1)>>}

\* The n-th issue of a project of a space.  Ids are unique across spaces, so
\* that an issue identifies the answer it came from; keys are not
RawIssue(space, project, n, due) ==
    [id |-> space.spaceId \o ":" \o project \o "-" \o ToString(n),
     issueKey |-> project \o "-" \o ToString(n),
     dueDate |-> due]

IssuesAnswer(space, project, menu) ==
    [n \in 1..Len(menu) |-> RawIssue(space, project, n, menu[n])]

\* callBacklogAPI: the parsed answer, or an exception for a failed request
\* and for a non-success status alike
IssueAnswers ==
    {[ok |-> FALSE, menu |-> <<>>]} \cup {[ok |-> TRUE, menu |-> m] : m \in IssueMenu}

\* What the requests for one space may end in: /projects fails, or lists
\* projects and each project's /issues request fails or answers
SpaceAnswers ==
    {[ok |-> FALSE, projects |-> <<>>, issues |-> <<>>]} \cup
    UNION {{[ok |-> TRUE, projects |-> ps, issues |-> r] :
               r \in [1..Len(ps) -> IssueAnswers]} : ps \in ProjectResponses}

\* Mutant: the quotient is rounded down
GetDaysUntilDueFloor(ms) == ms \div MsPerDay

\* Math.ceil(diffTime / (1000 * 60 * 60 * 24))
GetDaysUntilDue(ms) == CeilDiv(ms, MsPerDay)

\* Mutant: only issues that are not yet overdue are kept
SelectedUpcoming(issue, threshold) ==
    /\ issue.dueDate.has
    /\ GetDaysUntilDue(issue.dueDate.ms) <= threshold
    /\ GetDaysUntilDue(issue.dueDate.ms) >= 0

\* if (issue.dueDate) { ... if (daysUntil <= context.daysThreshold)
Selected(issue, threshold) ==
    /\ issue.dueDate.has
    /\ GetDaysUntilDue(issue.dueDate.ms) <= threshold

\* Mutant: the space is not recorded with the issue
TaggedWithoutSpace(issue, project, space) ==
    [id |-> issue.id, issueKey |-> issue.issueKey, dueDate |-> issue.dueDate,
     projectName |-> project,
     daysUntilDue |-> GetDaysUntilDue(issue.dueDate.ms),
     spaceId |-> "undefined"]

\* allIssues.push({ ...issue, projectName, daysUntilDue, spaceId })
Tagged(issue, project, space) ==
    [id |-> issue.id, issueKey |-> issue.issueKey, dueDate |-> issue.dueDate,
     projectName |-> project,
     daysUntilDue |-> GetDaysUntilDue(issue.dueDate.ms),
     spaceId |-> space.spaceId]

\* One pass of the inner loop: a failed request is caught and adds nothing
ProjectContribution(space, project, ans, threshold) ==
    IF ~ans.ok THEN <<>>
    ELSE LET Keep(issue) == Selected(issue, threshold)
             kept == SelectSeq(IssuesAnswer(space, project, ans.menu), Keep)
         IN  [k \in 1..Len(kept) |-> Tagged(kept[k], project, space)]

\* Mutant: a failed /issues request ends the pass over the space
SpaceContributionUntilFailure(space, ans, threshold) ==
    IF ~ans.ok THEN <<>>
    ELSE LET failures == {i \in 1..Len(ans.issues) : ~ans.issues[i].ok}
             last == IF failures = {} THEN Len(ans.issues)
                     ELSE (CHOOSE i \in failures : \A j \in failures : i <= j) - 1
         IN  Flatten([i \in 1..last |->
                        ProjectContribution(space, ans.projects[i], ans.issues[i],
                                            threshold)])

\* One pass of the outer loop: a failed /projects request is caught and
\* adds nothing, an empty project list is skipped
SpaceContribution(space, ans, threshold) ==
    IF ~ans.ok THEN <<>>
    ELSE Flatten([i \in 1..Len(ans.projects) |->
                    ProjectContribution(space, ans.projects[i], ans.issues[i],
                                        threshold)])

\* What was requested of a space and what it answered
SpaceLog(space, ans) ==
    [spaceId |-> space.spaceId,
     projectsOk |-> ans.ok,
     listed |-> Len(ans.projects),
     asked |-> Len(ans.issues),
     failed |-> Cardinality({i \in 1..Len(ans.issues) : ~ans.issues[i].ok}),
     raw |-> Flatten([i \in 1..Len(ans.issues) |->
                        IssuesAnswer(space, ans.projects[i], ans.issues[i].menu)])]

\* Mutant: the list is returned in the order of the requests
Unsorted(q) == q

\* allIssues.sort((a, b) => a.daysUntilDue - b.daysUntilDue): the sort is
\* stable, so an issue's place is the number of issues due earlier, or due
\* the same day and pushed before it
SortByDaysUntilDue(q) ==
    LET Before(j, i) ==
            \/ q[j].daysUntilDue < q[i].daysUntilDue
            \/ q[j].daysUntilDue = q[i].daysUntilDue /\ j < i
        Place(i) == Cardinality({j \in 1..Len(q) : Before(j, i)}) + 1
    IN  [k \in 1..Len(q) |-> q[CHOOSE i \in 1..Len(q) : Place(i) = k]]

\* url: `https://${issue.spaceId}.backlog.jp/view/${issue.issueKey}`
IssueUrl(issue) ==
    "https://" \o issue.spaceId \o ".backlog.jp/view/" \o issue.issueKey

\* allIssues.map((issue) => ({ id, key, ..., url }))
Formatted(issue) ==
    [id |-> issue.id, key |-> issue.issueKey, dueDate |-> issue.dueDate,
     daysUntilDue |-> issue.daysUntilDue, projectName |-> issue.projectName,
     url |-> IssueUrl(issue)]

NoToolOut == [issues |-> <<>>, total |-> 0, error |-> None]

\* return { issues: formattedIssues, total: formattedIssues.length }
UrgentOutput(issues) ==
    LET sorted == SortByDaysUntilDue(issues)
        formatted == [i \in 1..Len(sorted) |-> Formatted(sorted[i])]
    IN  [issues |-> formatted, total |-> Len(formatted), error |-> None]

\* const spaces = getBacklogSpaces(); if (spaces.length === 0) return {error}
UrgentStart ==
    /\ toolPc = "call"
    /\ spaces' = GetBacklogSpaces(env)
    /\ IF Len(GetBacklogSpaces(env)) = 0
       THEN /\ toolOut' = [issues |-> <<>>, total |-> 0,
                           error |-> Some(<<"Backlog settings missing">>)]
            /\ toolPc' = "returned"
       ELSE /\ toolOut' = toolOut
            /\ toolPc' = "loop"
    /\ spaceIdx' = 1
    /\ allIssues' = <<>>
    /\ apiLog' = <<>>
    /\ UNCHANGED <<env, context>>
    /\ UNCHANGED <<pipelineVars, notifyVars>>
    /\ UNCHANGED normalizerVars

\* for (const space of spaces) { try { ... } catch { } }: one space
UrgentSpace ==
    /\ toolPc = "loop"
    /\ spaceIdx <= Len(spaces)
    /\ \E ans \in SpaceAnswers :
          /\ allIssues' = allIssues \o
                SpaceContribution(spaces[spaceIdx], ans, context.daysThreshold)
          /\ apiLog' = Append(apiLog, SpaceLog(spaces[spaceIdx], ans))
    /\ spaceIdx' = spaceIdx + 1
    /\ UNCHANGED <<env, context, toolPc, spaces, toolOut>>
    /\ UNCHANGED <<pipelineVars, notifyVars>>
    /\ UNCHANGED normalizerVars

\* The sort, the formatting and the return; the accumulator goes out of scope
UrgentReturn ==
    /\ toolPc = "loop"
    /\ spaceIdx > Len(spaces)
    /\ toolOut' = UrgentOutput(allIssues)
    /\ allIssues' = <<>>
    /\ toolPc' = "returned"
    /\ UNCHANGED <<env, context, spaces, spaceIdx, apiLog>>
    /\ UNCHANGED <<pipelineVars, notifyVars>>
    /\ UNCHANGED normalizerVars

----------------------------------------------------------------------------
(* POST /backlog-notify and the run of backlogToSlackWorkflow it starts *)

\* The local dates a request is handled on: Monday 2 November 2026, Tuesday
\* 3 November (a listed holiday), Saturday 7 and Sunday 8 November
Dates ==
    {[year |-> 2026, month |-> 11, day |-> 2],
     [year |-> 2026, month |-> 11, day |-> 3],
     [year |-> 2026, month |-> 11, day |-> 7],
     [year |-> 2026, month |-> 11, day |-> 8]}

MonthOffsets == <<0, 3, 2, 5, 0, 3, 5, 1, 4, 6, 2, 4>>

\* date.getDay(): 0 is Sunday, 6 is Saturday
GetDay(date) ==
    LET y == IF date.month < 3 THEN date.year - 1 ELSE date.year
    IN  (y + (y \div 4) - (y \div 100) + (y \div 400) +
         MonthOffsets[date.month] + date.day) % 7

\* const holidays = [ ... ]
Holidays ==
    {<<1, 1>>, <<2, 11>>, <<2, 23>>, <<4, 29>>, <<5, 3>>, <<5, 4>>, <<5, 5>>,
     <<8, 11>>, <<11, 3>>, <<11, 23>>}

\* holidays.some((h) => h.month === month && h.day === day)
IsJapaneseHoliday(date) == <<date.month, date.day>> \in Holidays

\* Mutant: the holiday list is not consulted
IsWeekdayByDayOnly(date) == GetDay(date) # 0 /\ GetDay(date) # 6

IsWeekday(date) ==
    IF GetDay(date) = 0 \/ GetDay(date) = 6 THEN FALSE
    ELSE IF IsJapaneseHoliday(date) THEN FALSE
    ELSE TRUE

\* The body: text that is not JSON, or an object whose skipWeekendHoliday is
\* omitted, true or false, whose daysThreshold is omitted or a number and
\* whose channelId is omitted ("") or a channel
Bodies ==
    {[valid |-> FALSE, skipWeekendHoliday |-> "omitted",
      daysThreshold |-> [given |-> FALSE, value |-> 0], channelId |-> ""]} \cup
    [valid : {TRUE}, skipWeekendHoliday : {"omitted", "true", "false"},
     daysThreshold : ThresholdInputs, channelId : {"", "C-REQ"}]

Requests == [date : Dates, body : Bodies]

\* Mutant: the gate is evaluated whatever the body says
SkipWeekendHolidayAlways(body) == body.valid

\* const { ..., skipWeekendHoliday = true } = body; if (skipWeekendHoliday)
SkipWeekendHoliday(body) == body.skipWeekendHoliday # "false"

SlackEnvs == [token : {"", "xoxb"}, channel : {"", "C-ENV"}]

\* daysThreshold: daysThreshold ?? -1
RunInput(body) ==
    [daysThreshold |->
        IF body.daysThreshold.given THEN body.daysThreshold.value ELSE -1]

\* The response of the gate; keys are the keys of the JSON body
SkippedResponse ==
    [status |-> 200, success |-> "true", skipped |-> TRUE, message |-> "skipped",
     messageUrl |-> "", steps |-> <<>>,
     keys |-> {"success", "message", "skipped", "steps"}]

\* The response of the catch: error, details and stack, HTTP status 500
ErrorResponse ==
    [status |-> 500, success |-> "absent", skipped |-> FALSE, message |-> "error",
     messageUrl |-> "", steps |-> <<>>,
     keys |-> {"error", "details", "stack"}]

\* Mutant: a run that sent nothing is reported as skipped
RunResponseSkippedUnlessSent(status, result, ran) ==
    [status |-> 200,
     success |-> IF status = "success" /\ result.success THEN "true" ELSE "false",
     skipped |-> ~(status = "success" /\ result.success),
     message |-> IF status = "success" THEN "notified" ELSE status,
     messageUrl |-> IF status = "success" THEN result.messageUrl ELSE "",
     steps |-> ran,
     keys |-> {"success", "message", "skipped", "steps"}]

\* Mutant: the status of the run is not looked at
RunResponseWhateverStatus(status, result, ran) ==
    [status |-> 200,
     success |-> "true",
     skipped |-> FALSE,
     message |-> "notified",
     messageUrl |-> "https://slack.com/archives/C-ENV/p1",
     steps |-> ran,
     keys |-> {"success", "message", "messageUrl", "steps"}]

\* The response after the run: success and messageUrl are taken from the
\* Slack step's result only when the run's status is "success"; a
\* messageUrl that is undefined is left out of the JSON body
RunResponse(status, result, ran) ==
    [status |-> 200,
     success |-> IF status = "success" /\ result.success THEN "true" ELSE "false",
     skipped |-> FALSE,
     message |-> IF status = "success" THEN "notified" ELSE status,
     messageUrl |-> IF status = "success" THEN result.messageUrl ELSE "",
     steps |-> ran,
     keys |-> {"success", "message", "steps"} \cup
              (IF status = "success" /\ result.messageUrl # ""
               THEN {"messageUrl"} ELSE {})]

NoSlackOut == [success |-> FALSE, messageUrl |-> "", error |-> None]

NoSlackIn == [issues |-> <<>>, channelId |-> ""]

NoPost == [date |-> [year |-> 0, month |-> 0, day |-> 0],
           body |-> [valid |-> FALSE, skipWeekendHoliday |-> "omitted",
                     daysThreshold |-> [given |-> FALSE, value |-> 0],
                     channelId |-> ""]]

NoResponse ==
    [status |-> 0, success |-> "absent", skipped |-> FALSE, message |-> "",
     messageUrl |-> "", steps |-> <<>>, keys |-> {}]

\* The handler up to run.start: the body, the gate, the lookup of the
\* workflow.  The import, getWorkflow or createRunAsync may fail.
PostGate ==
    /\ notifyPc = "post"
    /\ IF ~request.body.valid
       THEN /\ response' = ErrorResponse
            /\ notifyPc' = "done"
            /\ UNCHANGED <<context, toolPc>>
       ELSE IF SkipWeekendHoliday(request.body) /\ ~IsWeekday(request.date)
       THEN /\ response' = SkippedResponse
            /\ notifyPc' = "done"
            /\ UNCHANGED <<context, toolPc>>
       ELSE \/ /\ response' = ErrorResponse
               /\ notifyPc' = "done"
               /\ UNCHANGED <<context, toolPc>>
            \/ /\ context' = RunInput(request.body)
               /\ toolPc' = "call"
               /\ notifyPc' = "search"
               /\ UNCHANGED response
    /\ UNCHANGED <<env, spaces, spaceIdx, allIssues, apiLog, toolOut>>
    /\ UNCHANGED <<request, slackEnv, slackIn, slackOut, slackCalls, posts>>
    /\ UNCHANGED pipelineVars
    /\ UNCHANGED normalizerVars

\* Mutant: the channel of the request is not passed on
SlackInputWithoutChannel(searched, body) ==
    [issues |-> searched.issues, channelId |-> ""]

\* return { issues: issues || [], channelId: channelId }: the search's error
\* is logged and dropped
SlackInput(searched, body) ==
    [issues |-> searched.issues, channelId |-> body.channelId]

\* prepare-slack-notification
PrepareSlackNotification ==
    /\ notifyPc = "search"
    /\ toolPc = "returned"
    /\ slackIn' = SlackInput(toolOut, request.body)
    /\ notifyPc' = "slack"
    /\ UNCHANGED <<request, slackEnv, slackOut, slackCalls, posts, response>>
    /\ UNCHANGED <<pipelineVars, toolVars>>
    /\ UNCHANGED normalizerVars

\* What chat.postMessage may end in: the request or the parsing of its
\* answer throws, the answer is not ok, it is ok with or without a ts, or it
\* is ok with a ts that is no string, so that data.ts.replace throws
PostOutcomes == {"throw", "notok", "ok", "ok-without-ts", "ok-then-throw"}

\* data.ok of the answer received, "none" when none was received
AnswerOf(outcome) ==
    IF outcome = "throw" THEN "none"
    ELSE IF outcome = "notok" THEN "notok"
    ELSE "ok"

\* const targetChannel = context.channelId || SLACK_CHANNEL_ID
TargetChannel(input, settings) == StrOr(input.channelId, settings.channel)

\* The message: the no-issue text, or the list of the issues
MessageOf(input, settings) ==
    [channel |-> TargetChannel(input, settings),
     text |-> IF Len(input.issues) = 0 THEN "no-urgent-issues" ELSE "issue-list",
     count |-> Len(input.issues)]

\* Mutant: the answer is not looked at
SlackResultIgnoresAnswer(input, settings, outcome) ==
    [success |-> TRUE,
     messageUrl |-> "https://slack.com/archives/" \o
                    TargetChannel(input, settings) \o "/p1",
     error |-> None]

\* if (!data.ok) return { success: false, error }; return { success: true,
\* messageUrl }; catch (error) { return { success: false, error } }
SlackResult(input, settings, outcome) ==
    CASE outcome \in {"throw", "ok-then-throw"} ->
            [success |-> FALSE, messageUrl |-> "", error |-> Some(<<"send error">>)]
      [] outcome = "notok" ->
            [success |-> FALSE, messageUrl |-> "", error |-> Some(<<"Slack API error">>)]
      [] outcome = "ok" ->
            [success |-> TRUE,
             messageUrl |-> "https://slack.com/archives/" \o
                            TargetChannel(input, settings) \o "/p1",
             error |-> None]
      [] OTHER -> [success |-> TRUE, messageUrl |-> "", error |-> None]

\* Mutant: only the bot token is tested before the message is sent
MissingSettingTokenOnly(input, settings) ==
    IF settings.token = "" THEN "SLACK_BOT_TOKEN" ELSE ""

\* if (!SLACK_BOT_TOKEN) ... if (!targetChannel): the setting the returned
\* error names, "" when both tests pass
MissingSetting(input, settings) ==
    IF settings.token = "" THEN "SLACK_BOT_TOKEN"
    ELSE IF TargetChannel(input, settings) = "" THEN "SLACK_CHANNEL_ID"
    ELSE ""

\* return { success: false, error: "<setting> ..." }
MissingSettingResult(setting) ==
    [success |-> FALSE, messageUrl |-> "",
     error |-> Some(<<setting, " is not set">>)]

\* slackNotifyUrgentIssuesTool.execute
SlackNotify ==
    /\ notifyPc = "slack"
    /\ IF MissingSetting(slackIn, slackEnv) # ""
       THEN /\ slackOut' = MissingSettingResult(MissingSetting(slackIn, slackEnv))
            /\ posts' = posts
       ELSE \E outcome \in PostOutcomes :
               /\ slackOut' = SlackResult(slackIn, slackEnv, outcome)
               /\ posts' = Append(posts, [message |-> MessageOf(slackIn, slackEnv),
                                           answer |-> AnswerOf(outcome)])
    /\ slackCalls' = slackCalls + 1
    /\ notifyPc' = "respond"
    /\ UNCHANGED <<request, slackEnv, slackIn, response>>
    /\ UNCHANGED <<pipelineVars, toolVars>>
    /\ UNCHANGED normalizerVars

StepIds ==
    <<"backlog-search-urgent-issues", "prepare-slack-notification",
      "slack-notify-urgent-issues">>

\* The run ended with status "success": the handler maps its result
PostRespond ==
    /\ notifyPc = "respond"
    /\ response' = RunResponse("success", slackOut, StepIds)
    /\ notifyPc' = "done"
    /\ UNCHANGED <<request, slackEnv, slackIn, slackOut, slackCalls, posts>>
    /\ UNCHANGED <<pipelineVars, toolVars>>
    /\ UNCHANGED normalizerVars

\* run.start resolves with the status "failed" or "suspended" without a step
\* having run: every step catches what it throws, so only the engine ends a
\* run this way, and the handler maps it
RunStops ==
    /\ notifyPc = "search"
    /\ toolPc = "call"
    /\ \E status \in {"failed", "suspended"} :
          response' = RunResponse(status, NoSlackOut, <<>>)
    /\ toolPc' = "not-run"
    /\ notifyPc' = "done"
    /\ UNCHANGED <<env, context, spaces, spaceIdx, allIssues, apiLog, toolOut>>
    /\ UNCHANGED <<request, slackEnv, slackIn, slackOut, slackCalls, posts>>
    /\ UNCHANGED <<pipelineVars, normalizerVars>>

----------------------------------------------------------------------------
(* The normalization of a Notion page's blocks, on its own *)

MaxBlocks == 3   \* blocks of a page, of the page size the API answers with

\* The blocks a page may hold: every type, with empty or non-empty text, or
\* without rich_text
BlockChoices ==
    [type : BlockTypes, rich_text : {TRUE}, text : {"", "a", "b"}] \cup
    [type : BlockTypes, rich_text : {FALSE}, text : {""}]

\* const content = blocks.results.map(...).filter(...).join("\n")
NormalizeBlocks ==
    /\ ~content.some
    /\ content' = Some(Join(NotionContent(blocks), "\n"))
    /\ UNCHANGED blocks
    /\ UNCHANGED <<pipelineVars, toolVars, notifyVars>>

----------------------------------------------------------------------------

\* The pipeline is not running
PipelineIdle ==
    /\ variant = "direct"
    /\ initData = [query |-> "", owner |-> "", repo |-> ""]
    /\ searchIn = None
    /\ pc = "idle"
    /\ allResults = <<>>
    /\ srcLog = InitLog
    /\ searchOut = NoSearchOut
    /\ fetchReqs = {}
    /\ fetchOut = NoFetchOut
    /\ genCalls = 0
    /\ genOut = NoGen
    /\ publishReq = NoRequest
    /\ created = 0
    /\ failedAt = ""

\* The tool is not running
ToolIdle ==
    /\ env = NoEnv
    /\ context = WithDefault([given |-> FALSE, value |-> 0])
    /\ toolPc = "idle"
    /\ spaces = <<>>
    /\ spaceIdx = 1
    /\ allIssues = <<>>
    /\ apiLog = <<>>
    /\ toolOut = NoToolOut

\* No page is being normalized
NormalizerIdle ==
    /\ blocks = <<>>
    /\ content = None

\* No request is being handled
NotifyIdle ==
    /\ request = NoPost
    /\ slackEnv = [token |-> "", channel |-> ""]
    /\ notifyPc = "idle"
    /\ slackIn = NoSlackIn
    /\ slackOut = NoSlackOut
    /\ slackCalls = 0
    /\ posts = <<>>
    /\ response = NoResponse

Init ==
    /\ variant \in {"direct", "tool"}
    /\ initData \in InitInputs
    /\ searchIn \in SourcesInputs
    /\ pc = "search_confluence"
    /\ allResults = <<>>
    /\ srcLog = InitLog
    /\ searchOut = NoSearchOut
    /\ fetchReqs = {}
    /\ fetchOut = NoFetchOut
    /\ genCalls = 0
    /\ genOut = NoGen
    /\ publishReq = NoRequest
    /\ created = 0
    /\ failedAt = ""
    /\ ToolIdle
    /\ NotifyIdle
    /\ NormalizerIdle

Next ==
    \/ SearchConfluence
    \/ SearchNotion
    \/ SearchBacklog
    \/ ToolSearchConfluence
    \/ ToolSearchNotion
    \/ ToolSearchBacklog
    \/ FetchPageContent
    \/ ToolFetchPageContent
    \/ CreateDevelopmentTasks
    \/ GithubCreateIssue

Spec == Init /\ [][Next]_vars

\* The tool called on its own, with any settings and any threshold
UrgentInit ==
    /\ PipelineIdle
    /\ NotifyIdle
    /\ NormalizerIdle
    /\ env \in Envs
    /\ context \in {WithDefault(input) : input \in ThresholdInputs}
    /\ toolPc = "call"
    /\ spaces = <<>>
    /\ spaceIdx = 1
    /\ allIssues = <<>>
    /\ apiLog = <<>>
    /\ toolOut = NoToolOut

UrgentNext ==
    \/ UrgentStart
    \/ UrgentSpace
    \/ UrgentReturn

UrgentSpec == UrgentInit /\ [][UrgentNext]_vars

\* The settings of the requests handled: no space, or the default space
NotifyEnvs == {NoEnv, [NoEnv EXCEPT ![0] = [spaceId |-> "alpha", apiKey |-> "ka"]]}

\* A request arrives
NotifyInit ==
    /\ PipelineIdle
    /\ NormalizerIdle
    /\ env \in NotifyEnvs
    /\ context = WithDefault([given |-> FALSE, value |-> 0])
    /\ toolPc = "idle"
    /\ spaces = <<>>
    /\ spaceIdx = 1
    /\ allIssues = <<>>
    /\ apiLog = <<>>
    /\ toolOut = NoToolOut
    /\ request \in Requests
    /\ slackEnv \in SlackEnvs
    /\ notifyPc = "post"
    /\ slackIn = NoSlackIn
    /\ slackOut = NoSlackOut
    /\ slackCalls = 0
    /\ posts = <<>>
    /\ response = NoResponse

NotifyNext ==
    \/ PostGate
    \/ UrgentStart
    \/ UrgentSpace
    \/ UrgentReturn
    \/ PrepareSlackNotification
    \/ SlackNotify
    \/ PostRespond
    \/ RunStops

NotifySpec == NotifyInit /\ [][NotifyNext]_vars

\* The children of a page are answered: any list of blocks
NormalizeInit ==
    /\ PipelineIdle
    /\ ToolIdle
    /\ NotifyIdle
    /\ blocks \in SeqsUpTo(BlockChoices, MaxBlocks)
    /\ content = None

NormalizeNext == NormalizeBlocks

NormalizeSpec == NormalizeInit /\ [][NormalizeNext]_vars

----------------------------------------------------------------------------
(* Vocabulary of the properties *)

\* The output of multi-source-search is visible
SearchReturned == pc = "fetch"

\* The output of fetch-page-content is visible
FetchReturned == pc = "synth"

\* The output of create-development-tasks is visible
SynthReturned == pc = "publish"

\* The (source, pageId) of every result, in order
Keys(results) == [i \in 1..Len(results) |-> <<results[i].source, results[i].pageId>>]

\* Every entry of a source's answer as a key, in the answer's order
AnsweredKeys(s, raw) ==
    IF s = "notion" THEN [i \in 1..Len(raw) |-> <<s, raw[i]>>]
    ELSE [i \in 1..Len(raw) |-> <<s, raw[i].id>>]

KeptConfluence(e) == e.hasContent
KeptIssue(e) == e.due.has /\ e.due.ms > -MsPerDay /\ e.due.ms <= 14 * MsPerDay
KeptWiki(e) == e.matches

\* The entries of a source's answer that become results, as keys
KeptKeys(s, raw) ==
    CASE s = "notion" -> AnsweredKeys(s, raw)
      [] s = "confluence" -> AnsweredKeys(s, SelectSeq(raw, KeptConfluence))
      [] s = "backlog" /\ variant = "direct" -> AnsweredKeys(s, SelectSeq(raw, KeptIssue))
      [] OTHER -> AnsweredKeys(s, SelectSeq(raw, KeptWiki))

\* s answered successfully with a non-empty list and the other two failed
OnlyAnswered(s) ==
    /\ srcLog[s].status = "ok"
    /\ Len(srcLog[s].raw) > 0
    /\ \A t \in SourceNames \ {s} : srcLog[t].status = "failed"

\* C1 as stated: when exactly one source answers with a non-empty list and
\* the other two fail, results is that source's list and no error is set
C1_Original ==
    (SearchReturned /\ variant = "direct") =>
        \A s \in SourceNames :
            OnlyAnswered(s) =>
                /\ Keys(searchOut.results) = AnsweredKeys(s, srcLog[s].raw)
                /\ ~searchOut.error.some

\* C1 as amended: results is exactly the entries of that source's answer
\* that the step keeps, in the answer's order, nothing of the failed
\* sources; error is absent exactly when an entry is kept
C1_SourceIsolation ==
    SearchReturned =>
        \A s \in SourceNames :
            OnlyAnswered(s) =>
                /\ Keys(searchOut.results) = KeptKeys(s, srcLog[s].raw)
                /\ searchOut.error.some <=> KeptKeys(s, srcLog[s].raw) = <<>>

C1_Witness ==
    /\ SearchReturned
    /\ variant = "direct"
    /\ OnlyAnswered("notion")
    /\ Keys(searchOut.results) = <<<<"notion", "n2">>, <<"notion", "n1">>>>
    /\ srcLog["confluence"].httpCalls = 1
    /\ srcLog["backlog"].creds = FALSE

\* C2: the output of multi-source-search has an error if and only if its
\* result list is empty
C2_ErrorIffEmpty ==
    SearchReturned => (Truthy(searchOut.error) <=> Len(searchOut.results) = 0)

C2_Witness ==
    /\ SearchReturned
    /\ \E s \in SourceNames : srcLog[s].status = "ok" /\ Len(srcLog[s].raw) > 0
    /\ Len(searchOut.results) = 0
    /\ Truthy(searchOut.error)

\* C3: with a non-empty list, fetch-page-content requests the document of
\* results[0] and no other, and the document it returns has the source and
\* the id of results[0], whether the request succeeded or not
C3_SelectsFirst ==
    (FetchReturned /\ Len(searchOut.results) > 0) =>
        /\ fetchReqs = {[source |-> searchOut.results[1].source,
                         pageId |-> searchOut.results[1].pageId]}
        /\ fetchOut.page.id = searchOut.results[1].pageId
        /\ fetchOut.page.source = searchOut.results[1].source

C3_Witness ==
    /\ FetchReturned
    /\ Len(searchOut.results) > 1
    /\ searchOut.results[1].pageId # searchOut.results[2].pageId
    /\ searchOut.results[1].source # searchOut.results[2].source
    /\ Truthy(fetchOut.error)
    /\ fetchOut.page.id = searchOut.results[1].pageId

\* An issue with a title and a body
WellFormed(issue) == issue.title.some /\ issue.body.some

\* The document has no content: undefined, or the empty string
NoContent(doc) == ~doc.page.content.some \/ doc.page.content.val = <<>>

\* C4: for an empty content, an undefined content, and a generation call
\* that throws or returns text that is not JSON, create-development-tasks
\* returns one well-formed issue and does not throw
C4_DegradedSynthesis ==
    /\ failedAt # "create-development-tasks"
    /\ (SynthReturned /\ (NoContent(fetchOut) \/ genOut.kind \in {"invalid", "throw"})) =>
          /\ Len(publishReq.issues) = 1
          /\ WellFormed(publishReq.issues[1])

C4_Witness ==
    /\ SynthReturned
    /\ ~NoContent(fetchOut)
    /\ genOut.kind = "invalid"
    /\ Len(publishReq.issues) = 1

\* C5: multi-source-search, fetch-page-content and create-development-tasks
\* never throw, so no run fails before the create-issue step
C5_NoStageAborts ==
    failedAt \notin {"multi-source-search", "fetch-page-content",
                     "create-development-tasks"}

\* C6: a fetched document has a non-empty content and no error, or no
\* content and a non-empty error
C6_ContentXorError ==
    FetchReturned =>
        \/ Truthy(fetchOut.page.content) /\ ~fetchOut.error.some
        \/ ~fetchOut.page.content.some /\ Truthy(fetchOut.error)

\* C7: when the content is present and the generated text is a top-level
\* JSON array of items with title and body, the request holds those items
\* in order, each body followed by the footer
C7_TopLevelArray ==
    (SynthReturned /\ genOut.kind = "array") =>
        /\ Len(publishReq.issues) = Len(genOut.items)
        /\ \A i \in 1..Len(genOut.items) :
              /\ publishReq.issues[i].title = genOut.items[i].title
              /\ publishReq.issues[i].body =
                    Some(genOut.items[i].body.val \o Footer(fetchOut.page))

\* Number of places where text `sub` occurs in text `body`
Occurrences(sub, body) ==
    Cardinality({i \in 1..(Len(body) - Len(sub) + 1) :
                    SubSeq(body, i, i + Len(sub) - 1) = sub})

\* C8: every body of a successful synthesis contains the document's url
\* once and its title once
C8_ProvenanceOnce ==
    (SynthReturned /\ genOut.kind = "issues") =>
        \A i \in 1..Len(publishReq.issues) :
            /\ Occurrences(<<fetchOut.page.url>>, publishReq.issues[i].body.val) = 1
            /\ Occurrences(fetchOut.page.title, publishReq.issues[i].body.val) = 1

\* C9: every issue handed to the create-issue step has a title and a body
C9_WellFormedIssues ==
    SynthReturned => \A i \in 1..Len(publishReq.issues) : WellFormed(publishReq.issues[i])

\* C10: for a document with an error or without content no generation call
\* is made and the request is the single issue that reports the failure
C10_NoCallWhenDegraded ==
    (SynthReturned /\ (fetchOut.error.some \/ NoContent(fetchOut))) =>
        /\ genCalls = 0
        /\ genOut = NoGen
        /\ Len(publishReq.issues) = 1
        /\ publishReq.issues[1].title = Some(<<"investigate:", initData.query>>)

C10_Witness ==
    /\ SynthReturned
    /\ ~fetchOut.error.some
    /\ fetchOut.page.content = Some(<<>>)
    /\ genCalls = 0
    /\ Len(publishReq.issues) = 1

\* The keys of the results that come from source s, in their order
ResultsOf(s) ==
    LET FromS(k) == k[1] = s
    IN  SelectSeq(Keys(searchOut.results), FromS)

\* The step made a call for source s: the CQL generation or a request
Ran(s) == srcLog[s].llmCalls + srcLog[s].httpCalls > 0

\* Source s was enabled and its settings were missing
MissingCredentials(s) == srcLog[s].status = "failed" /\ ~srcLog[s].creds

C12_FixedConcatenationOrder ==
    SearchReturned =>
        Keys(searchOut.results) =
            KeptKeys("confluence", srcLog["confluence"].raw) \o
            KeptKeys("notion", srcLog["notion"].raw) \o
            KeptKeys("backlog", srcLog["backlog"].raw)

C12_Witness ==
    /\ SearchReturned
    /\ searchIn = Some(<<"backlog", "notion", "confluence">>)
    /\ ResultsOf("confluence") # <<>>
    /\ Len(ResultsOf("notion")) = 2
    /\ ResultsOf("backlog") # <<>>
    /\ searchOut.results[1].source = "confluence"
    /\ searchOut.results[Len(searchOut.results)].source = "backlog"

\* C13: on the degraded path, after a successful synthesis and on the
\* fallback after a failed synthesis, the request carries the owner and the
\* repo of the invocation
C13_OwnerRepoCarried ==
    SynthReturned =>
        /\ publishReq.owner = initData.owner
        /\ publishReq.repo = initData.repo

C13_Witness ==
    /\ SynthReturned
    /\ genOut.kind = "throw"
    /\ initData.owner = "acme"
    /\ initData.repo = "app"
    /\ publishReq.owner = "acme"
    /\ publishReq.repo = "app"

----------------------------------------------------------------------------
(* Vocabulary of the properties of backlogSearchUrgentIssuesTool *)

\* The tool went through its loops and returned
ToolReturned == toolPc = "returned" /\ spaces # <<>>

\* Every issue the /issues requests answered with, in request order
AnsweredIssues == Flatten([k \in 1..Len(apiLog) |-> apiLog[k].raw])

\* The least integer d with d days >= ms
DaysLeft(ms) ==
    CHOOSE d \in -20..20 : d * MsPerDay >= ms /\ (d - 1) * MsPerDay < ms

\* The ids of the answered issues that have a due date in lo..hi days
IdsDueWithin(lo, hi) ==
    {AnsweredIssues[i].id : i \in
        {j \in 1..Len(AnsweredIssues) :
            /\ AnsweredIssues[j].dueDate.has
            /\ DaysLeft(AnsweredIssues[j].dueDate.ms) >= lo
            /\ DaysLeft(AnsweredIssues[j].dueDate.ms) <= hi}}

ReturnedIds == {toolOut.issues[i].id : i \in 1..Len(toolOut.issues)}

Ascending ==
    \A i, j \in 1..Len(toolOut.issues) :
        i < j => toolOut.issues[i].daysUntilDue <= toolOut.issues[j].daysUntilDue

\* C14: run with a threshold of 0 or more, the tool returns exactly the
\* answered issues due in 0..threshold days, in ascending order
C14_UpcomingBoundary ==
    (ToolReturned /\ context.daysThreshold >= 0) =>
        /\ ReturnedIds = IdsDueWithin(0, context.daysThreshold)
        /\ Ascending

\* C15: run with threshold -1, the tool returns exactly the answered issues
\* that have a due date and are due in -1 days or less, however long ago;
\* no issue without a due date is returned
C15_OverdueVariant ==
    (ToolReturned /\ context.daysThreshold = -1) =>
        /\ ReturnedIds = IdsDueWithin(-20, -1)
        /\ \A i \in 1..Len(toolOut.issues) : toolOut.issues[i].dueDate.has

C15_Witness ==
    /\ ToolReturned
    /\ context.daysThreshold = -1
    /\ \E i \in 1..Len(AnsweredIssues) : ~AnsweredIssues[i].dueDate.has
    /\ \E i \in 1..Len(AnsweredIssues) :
          AnsweredIssues[i].dueDate.has /\ DaysLeft(AnsweredIssues[i].dueDate.ms) = 0
    /\ {toolOut.issues[i].daysUntilDue : i \in 1..Len(toolOut.issues)} = {-2, -1}

\* C16: the returned list is in non-decreasing order of daysUntilDue over
\* all spaces and projects, and total is its length
C16_SortedAcrossSpaces ==
    toolPc = "returned" =>
        /\ Ascending
        /\ toolOut.total = Len(toolOut.issues)

\* Issue i of the result was answered by the k-th space visited
AnsweredBy(i, k) ==
    \E n \in 1..Len(apiLog[k].raw) : apiLog[k].raw[n].id = toolOut.issues[i].id

C16_Witness ==
    /\ ToolReturned
    /\ Len(spaces) = 2
    /\ spaces[1].spaceId # spaces[2].spaceId
    /\ toolOut.total > 2
    /\ \E i, j \in 1..Len(toolOut.issues) :
          /\ i < j
          /\ AnsweredBy(i, 2)
          /\ AnsweredBy(j, 1)
          /\ toolOut.issues[i].daysUntilDue < toolOut.issues[j].daysUntilDue
    /\ \E i, j \in 1..Len(toolOut.issues) :
          /\ i < j
          /\ toolOut.issues[i].projectName = "p2"
          /\ toolOut.issues[j].projectName = "p1"
          /\ AnsweredBy(i, 1)
          /\ AnsweredBy(j, 1)

\* C17: whatever requests fail, every configured space is asked for its
\* projects and every listed project for its issues, every answered issue
\* that qualifies is returned, and the result has no error
C17_TenantProjectIsolation ==
    ToolReturned =>
        /\ Len(apiLog) = Len(spaces)
        /\ \A k \in 1..Len(apiLog) :
              /\ apiLog[k].spaceId = spaces[k].spaceId
              /\ apiLog[k].projectsOk => apiLog[k].asked = apiLog[k].listed
        /\ IdsDueWithin(-20, context.daysThreshold) \subseteq ReturnedIds
        /\ ~toolOut.error.some

C17_Witness ==
    /\ ToolReturned
    /\ Len(spaces) = 2
    /\ ~apiLog[1].projectsOk
    /\ apiLog[2].projectsOk
    /\ apiLog[2].listed = 2
    /\ apiLog[2].failed = 1
    /\ IdsDueWithin(-20, context.daysThreshold) # {}
    /\ toolOut.total > 0

\* C18: the url of every returned issue has the host of the space whose
\* request answered with that issue
C18_TenantCorrectUrls ==
    ToolReturned =>
        \A i \in 1..Len(toolOut.issues) :
            \E k \in 1..Len(apiLog) :
                /\ AnsweredBy(i, k)
                /\ toolOut.issues[i].url =
                      "https://" \o apiLog[k].spaceId \o ".backlog.jp/view/" \o
                      toolOut.issues[i].key

C18_Witness ==
    /\ ToolReturned
    /\ Len(spaces) = 2
    /\ spaces[1].spaceId = "beta"
    /\ spaces[2].spaceId = "alpha"
    /\ \E i, j \in 1..Len(toolOut.issues) :
          /\ toolOut.issues[i].key = toolOut.issues[j].key
          /\ toolOut.issues[i].url = "https://beta.backlog.jp/view/p1-2"
          /\ toolOut.issues[j].url = "https://alpha.backlog.jp/view/p1-2"

----------------------------------------------------------------------------
(* Vocabulary of the properties of POST /backlog-notify *)

\* The Saturday, the Sunday and the listed holiday among the dates
ClosedDates ==
    {[year |-> 2026, month |-> 11, day |-> 3],
     [year |-> 2026, month |-> 11, day |-> 7],
     [year |-> 2026, month |-> 11, day |-> 8]}

\* The request asks for the gate, or leaves it to the default, on a closed day
GateTrips ==
    /\ request.body.valid
    /\ request.body.skipWeekendHoliday \in {"true", "omitted"}
    /\ request.date \in ClosedDates

Responded == notifyPc = "done"

\* The workflow was started
RunStarted == toolPc # "idle"

\* C19: for a request on a Saturday, a Sunday or a listed holiday with
\* skipWeekendHoliday true or omitted, the workflow is never started, no
\* request goes to Backlog or to Slack, and the response is success = true,
\* skipped = true
C19_WeekdayGate ==
    GateTrips =>
        /\ ~RunStarted
        /\ apiLog = <<>>
        /\ posts = <<>>
        /\ notifyPc \in {"post", "done"}
        /\ Responded =>
              /\ response.status = 200
              /\ response.success = "true"
              /\ response.skipped

C19_Witness ==
    /\ Responded
    /\ request.date = [year |-> 2026, month |-> 11, day |-> 3]
    /\ request.body.valid
    /\ request.body.skipWeekendHoliday = "omitted"
    /\ env # NoEnv
    /\ slackEnv.token # ""
    /\ response.skipped

\* C20: a response has skipped = true only if the gate tripped; a response
\* after the workflow was started and a response with status 500 have none
C20_SkippedIsDistinct ==
    Responded =>
        /\ response.skipped => GateTrips
        /\ RunStarted => ~response.skipped
        /\ response.status = 500 => ~response.skipped

C20_Witness ==
    /\ Responded
    /\ RunStarted
    /\ request.date \in ClosedDates
    /\ request.body.skipWeekendHoliday = "false"
    /\ response.success = "false"
    /\ response.message = "failed"
    /\ ~response.skipped

\* C21: when the body of a request omits daysThreshold, the urgent-issue
\* search the request starts runs with the threshold 3
C21_DefaultThreshold ==
    (request.body.valid /\ ~request.body.daysThreshold.given /\ RunStarted)
        => context.daysThreshold = 3

----------------------------------------------------------------------------
(* Vocabulary of the properties of slackNotifyUrgentIssuesTool *)

\* The Slack tool has returned
SlackReturned == slackCalls > 0

\* C22: when the Slack bot token is not configured, or no channel id is given
\* in the input and none is configured, the tool returns success = false with
\* an error that names the missing setting, and sends nothing to the chat API
C22_MissingSinkConfiguration ==
    (SlackReturned /\ (slackEnv.token = "" \/
                       (slackIn.channelId = "" /\ slackEnv.channel = ""))) =>
        /\ ~slackOut.success
        /\ Truthy(slackOut.error)
        /\ slackOut.error.val[1] =
              (IF slackEnv.token = "" THEN "SLACK_BOT_TOKEN" ELSE "SLACK_CHANNEL_ID")
        /\ slackOut.messageUrl = ""
        /\ posts = <<>>

C22_Witness ==
    /\ SlackReturned
    /\ slackEnv.token # ""
    /\ slackEnv.channel = ""
    /\ slackIn.channelId = ""
    /\ Len(slackIn.issues) > 0
    /\ slackOut.error = Some(<<"SLACK_CHANNEL_ID", " is not set">>)
    /\ posts = <<>>

----------------------------------------------------------------------------
(* Vocabulary of the properties of the Notion normalization *)

\* The content of the page has been built
Normalized == content.some

MarkedTypes == {"paragraph", "heading_1", "heading_2", "bulleted_list_item"}

\* The marker the line of a block of a marked type starts with
MarkerOf(type) ==
    IF type = "heading_1" THEN "# "
    ELSE IF type = "heading_2" THEN "## "
    ELSE IF type = "bulleted_list_item" THEN "- "
    ELSE ""

IsMarked(block) == block.type \in MarkedTypes

\* A block of a marked type that has rich_text and whose line is not empty:
\* only a paragraph can have an empty line
HasLine(block) ==
    /\ block.type \in MarkedTypes
    /\ block.rich_text
    /\ ~(block.type = "paragraph" /\ block.text = "")

\* One line per block of q, in the order of q
LinesOf(q) == [i \in 1..Len(q) |-> MarkerOf(q[i].type) \o q[i].text]

\* C23 as stated: the content is the newline-join, in block order, of one
\* line per block of type paragraph, heading_1, heading_2 or
\* bulleted_list_item, the line being the block's text after its marker
C23_Original ==
    Normalized => content.val = Join(LinesOf(SelectSeq(blocks, IsMarked)), "\n")

\* C23: the content is the newline-join, in block order, of one line per
\* block of a marked type that has rich_text and a non-empty line, the line
\* being the block's text after its marker; a paragraph without text, a block
\* without rich_text and a block of any other type contribute nothing
C23_BlockNormalization ==
    Normalized => content.val = Join(LinesOf(SelectSeq(blocks, HasLine)), "\n")

C23_Witness ==
    /\ Normalized
    /\ blocks = <<Block("heading_1", "a"), Block("paragraph", ""),
                  Block("bulleted_list_item", "b")>>
    /\ content.val = "# a\n- b"

----------------------------------------------------------------------------
(* Vocabulary of the properties of the query translation *)

\* The caller's sources, or the default ones, include Confluence
ConfluenceEnabled ==
    \/ ~searchIn.some
    \/ \E i \in 1..Len(searchIn.val) : searchIn.val[i] = "confluence"

\* c is t without the white space at its two ends
TrimmedOf(t, c) ==
    /\ c = <<>> \/ (~IsSpace(c[1]) /\ ~IsSpace(c[Len(c)]))
    /\ \E i \in 0..Len(t) :
          /\ i + Len(c) <= Len(t)
          /\ SubSeq(t, i + 1, i + Len(c)) = c
          /\ \A k \in 1..Len(t) : (k <= i \/ k > i + Len(c)) => IsSpace(t[k])

\* The search request of the Confluence block carries the trimmed text of
\* the translation, and there is at most one such request
UsedVerbatim ==
    /\ srcLog["confluence"].httpCalls <= 1
    /\ srcLog["confluence"].httpCalls = 1 =>
          /\ srcLog["confluence"].generated.some
          /\ srcLog["confluence"].cql.some
          /\ TrimmedOf(srcLog["confluence"].generated.val,
                       srcLog["confluence"].cql.val)
    /\ srcLog["confluence"].httpCalls = 0 => ~srcLog["confluence"].cql.some

\* C24 as stated: the model is called for the translation exactly once in a
\* run with Confluence enabled and never in a run without it, and the
\* search request carries the trimmed translation
C24_Original ==
    SearchReturned =>
        /\ srcLog["confluence"].llmCalls = (IF ConfluenceEnabled THEN 1 ELSE 0)
        /\ UsedVerbatim

\* C24: the model is called for the translation exactly once in a run with
\* Confluence enabled, provided the step that calls the API itself finds the
\* base URL and the API token set, and never otherwise; a search request is
\* made at most once, only after the call returned, and carries the trimmed
\* translation
C24_QueryTranslation ==
    SearchReturned =>
        /\ srcLog["confluence"].llmCalls =
              (IF ConfluenceEnabled /\
                  (variant = "tool" \/ srcLog["confluence"].creds)
               THEN 1 ELSE 0)
        /\ UsedVerbatim

C24_Witness ==
    /\ SearchReturned
    /\ variant = "direct"
    /\ ConfluenceEnabled
    /\ srcLog["confluence"].llmCalls = 1
    /\ srcLog["confluence"].httpCalls = 1
    /\ srcLog["confluence"].generated = Some(<<" ", "text ~ \"auth\"", "\n">>)
    /\ srcLog["confluence"].cql = Some(<<"text ~ \"auth\"">>)
    /\ ResultsOf("confluence") # <<>>

----------------------------------------------------------------------------
(* Vocabulary of the properties of getDaysUntilDue *)

\* d is the least integer with d days >= ms
IsCeilingOfDays(d, ms) == d * MsPerDay >= ms /\ (d - 1) * MsPerDay < ms

\* C25: the daysUntilDue of a returned issue is the least integer d with
\* d * 24h >= dueDate - now: 0 for an issue due less than 24 hours ago, 1 for
\* an issue due in less than 24 hours
C25_DaysUntilDueCeiling ==
    ToolReturned =>
        \A i \in 1..Len(toolOut.issues) :
            /\ IsCeilingOfDays(toolOut.issues[i].daysUntilDue,
                               toolOut.issues[i].dueDate.ms)
            /\ (toolOut.issues[i].dueDate.ms <= 0 /\
                toolOut.issues[i].dueDate.ms > -MsPerDay) =>
                  toolOut.issues[i].daysUntilDue = 0
            /\ (toolOut.issues[i].dueDate.ms > 0 /\
                toolOut.issues[i].dueDate.ms < MsPerDay) =>
                  toolOut.issues[i].daysUntilDue = 1

C25_Witness ==
    /\ ToolReturned
    /\ \E i, j, k \in 1..Len(toolOut.issues) :
          /\ toolOut.issues[i].dueDate.ms = -5 * HourMs
          /\ toolOut.issues[i].daysUntilDue = 0
          /\ toolOut.issues[j].dueDate.ms = 19 * HourMs
          /\ toolOut.issues[j].daysUntilDue = 1
          /\ toolOut.issues[k].dueDate.ms = -29 * HourMs
          /\ toolOut.issues[k].daysUntilDue = -1

----------------------------------------------------------------------------
(* Further properties of POST /backlog-notify *)

\* The body is an object with skipWeekendHoliday = false
GateDeclined == request.body.valid /\ request.body.skipWeekendHoliday = "false"

\* C26: for a request with skipWeekendHoliday = false the date is not
\* consulted: on every date, Saturdays, Sundays and listed holidays included,
\* the handler goes on to start the workflow (it answers without a run only
\* with the 500 of a failed lookup), and the response never has skipped = true
C26_GateOnlyWhenAsked ==
    (GateDeclined /\ notifyPc # "post") =>
        /\ ~response.skipped
        /\ RunStarted \/ (Responded /\ response.status = 500)

C26_Witness ==
    /\ GateDeclined
    /\ request.date = [year |-> 2026, month |-> 11, day |-> 8]
    /\ Responded
    /\ RunStarted
    /\ posts # <<>>
    /\ response.success = "true"
    /\ ~response.skipped

----------------------------------------------------------------------------
(* Properties of a run of backlogToSlackWorkflow *)

\* The urgent-issue search returned
Searched == toolPc = "returned"

\* The search reported an error
SearchErred == Searched /\ Truthy(toolOut.error)

\* The bot token and a channel, of the request or of the settings, are set
SlackConfigured ==
    slackEnv.token # "" /\ (request.body.channelId # "" \/ slackEnv.channel # "")

----------------------------------------------------------------------------
(* Further properties of slackNotifyUrgentIssuesTool *)

\* C28: an invocation of the tool always returns, having sent at most one
\* message; it returns success = true only if it sent exactly one message and
\* the answer was ok; after an answer that is not ok, or an exception, it
\* returns success = false with a non-empty error and no messageUrl, and has
\* not sent the message again
C28_NeverThrowsOnePost ==
    /\ Len(posts) <= slackCalls
    /\ SlackReturned =>
          /\ notifyPc \in {"respond", "done"}
          /\ Responded => response.message = "notified"
          /\ slackOut.success => (Len(posts) = 1 /\ posts[1].answer = "ok")
          /\ ~slackOut.success =>
                (Truthy(slackOut.error) /\ slackOut.messageUrl = "")
          /\ (posts # <<>> /\ posts[1].answer # "ok") =>
                (~slackOut.success /\ Len(posts) = 1)

C28_Witness ==
    /\ SlackReturned
    /\ Len(slackIn.issues) > 0
    /\ Len(posts) = 1
    /\ posts[1].answer = "ok"
    /\ posts[1].message.text = "issue-list"
    /\ ~slackOut.success
    /\ slackOut.error = Some(<<"send error">>)

----------------------------------------------------------------------------
(* Further properties of create-development-tasks *)

\* C29: whatever the model returns, the request that create-development-tasks
\* returns holds at least one issue
C29_AtLeastOneIssue ==
    (SynthReturned /\ variant = "direct") => Len(publishReq.issues) >= 1

\* The handler threw: the body was no JSON, or the workflow was not found
HandlerThrew == Responded /\ ~RunStarted /\ ~GateTrips

\* The run ended with the status success: its three steps ran
RunSucceeded == Responded /\ Searched /\ slackCalls = 1

\* The run ended with the status failed or suspended
RunEndedOtherwise == Responded /\ RunStarted /\ ~Searched

\* C30: for a request that is not skipped, the response has success = true
\* only if the run ended with the status success and the Slack step returned
\* success = true; after a run that ended failed or suspended it has
\* success = false and no messageUrl; after an exception in the handler it is
\* an HTTP 500 with error and details and without success
C30_ResponseMapping ==
    (Responded /\ ~response.skipped) =>
        /\ response.success = "true" => (RunSucceeded /\ slackOut.success)
        /\ RunSucceeded =>
              /\ response.status = 200
              /\ response.success = (IF slackOut.success THEN "true" ELSE "false")
              /\ response.messageUrl = slackOut.messageUrl
        /\ RunEndedOtherwise =>
              /\ response.status = 200
              /\ response.success = "false"
              /\ response.messageUrl = ""
              /\ "messageUrl" \notin response.keys
        /\ HandlerThrew =>
              /\ response.status = 500
              /\ {"error", "details"} \subseteq response.keys
              /\ "success" \notin response.keys
              /\ response.success = "absent"

C30_Witness ==
    /\ Responded
    /\ RunEndedOtherwise
    /\ request.date = [year |-> 2026, month |-> 11, day |-> 2]
    /\ request.body.skipWeekendHoliday = "omitted"
    /\ response.message = "suspended"
    /\ response.success = "false"
    /\ response.keys = {"success", "message", "steps"}

====
